---- MODULE Spec2Model ----
(***************************************************************************)
(* Model of app.py: a Streamlit script that transcribes a microphone       *)
(* recording, asks the Mistral chat API to correct the transcript, and     *)
(* scores raw against corrected text with a Jaccard word similarity.       *)
(*                                                                         *)
(* A text is a sequence of one-character strings.  A script run (Streamlit *)
(* reruns the whole script on every interaction) is followed through its   *)
(* positions: idle -> transcribe -> correct -> display -> idle.            *)
(***************************************************************************)
EXTENDS Integers, Sequences, FiniteSets, TLC

VARIABLES
    raw_transcript,        \* st.session_state.raw_transcript       (text)
    corrected_transcript,  \* st.session_state.corrected_transcript (text)
    show_results,          \* st.session_state.show_results         (BOOLEAN)
    pc,                    \* position of the current script run
    audio,                 \* value of mic_recorder(...) in this run
    pending,               \* segments the engine has still to yield
    fragments,             \* the list [s.text for s in segments] built so far
    res,                   \* outcome of requests.post(...) in this run
    ui,                    \* elements rendered by st.* calls in this run
    similarity_score,      \* local of the run; <<>> while unassigned
    interpretation,        \* local of the run; "unset" while unassigned
    name_error,            \* TRUE once a run read an unassigned local
    text1, text2,          \* arguments of a direct jaccard_similarity call
    jresult                \* its return value; <<>> before the call returns

vars == <<raw_transcript, corrected_transcript, show_results, pc, audio,
          pending, fragments, res, ui, similarity_score, interpretation,
          name_error, text1, text2, jresult>>

sessionVars == <<raw_transcript, corrected_transcript, show_results>>
runVars == <<audio, pending, fragments, res, ui, similarity_score,
             interpretation, name_error>>
jaccardVars == <<text1, text2, jresult>>

---------------------------------------------------------------------------
(* Bounds *)

\* longest text handed directly to jaccard_similarity
MaxLen == 3
\* most segments the speech engine yields for one recording
MaxSegs == 2

---------------------------------------------------------------------------
(* Texts *)

\* characters str.split() treats as separators
Whitespace == {" ", "\n", "\t"}

IsSpace(c) == c \in Whitespace

\* str.lower() on one character
LowerChar(c) ==
    CASE c = "A" -> "a"
      [] c = "B" -> "b"
      [] c = "C" -> "c"
      [] c = "D" -> "d"
      [] OTHER -> c

\* Lower with the lowercasing forgotten
LowerForgotten(t) == t

\* str.lower(): character by character, left to right
RECURSIVE Lower(_)
Lower(t) ==
    IF t = <<>> THEN <<>> ELSE <<LowerChar(Head(t))>> \o Lower(Tail(t))

\* str.split() with no argument: scan left to right, cut at every run of
\* whitespace, never emit an empty word.  cur is the word being read.
RECURSIVE SplitFrom(_, _, _)
SplitFrom(t, cur, acc) ==
    IF t = <<>>
    THEN IF cur = <<>> THEN acc ELSE Append(acc, cur)
    ELSE IF IsSpace(Head(t))
         THEN SplitFrom(Tail(t), <<>>, IF cur = <<>> THEN acc ELSE Append(acc, cur))
         ELSE SplitFrom(Tail(t), Append(cur, Head(t)), acc)

Split(t) == SplitFrom(t, <<>>, <<>>)

\* set(list)
ToSet(s) == {s[i] : i \in DOMAIN s}

\* str.strip(): drop leading, then trailing whitespace
RECURSIVE LStrip(_)
LStrip(t) ==
    IF t # <<>> /\ IsSpace(Head(t)) THEN LStrip(Tail(t)) ELSE t

RECURSIVE RStrip(_)
RStrip(t) ==
    IF t # <<>> /\ IsSpace(t[Len(t)]) THEN RStrip(SubSeq(t, 1, Len(t) - 1)) ELSE t

Strip(t) == RStrip(LStrip(t))

\* truthiness of a str: non-empty
Truthy(t) == t # <<>>

\* JoinTexts taking the list from its last element to its first
RECURSIVE JoinReversed(_, _)
JoinReversed(sep, list) ==
    IF list = <<>> THEN <<>>
    ELSE IF Len(list) = 1 THEN Head(list)
    ELSE JoinReversed(sep, Tail(list)) \o sep \o Head(list)

\* sep.join(list)
RECURSIVE JoinTexts(_, _)
JoinTexts(sep, list) ==
    IF list = <<>> THEN <<>>
    ELSE IF Len(list) = 1 THEN Head(list)
    ELSE Head(list) \o sep \o JoinTexts(sep, Tail(list))

---------------------------------------------------------------------------
(* Floats that are quotients of two small naturals are kept as the reduced *)
(* fraction <<numerator, denominator>>: true division of small integers    *)
(* gives equal floats exactly for equal fractions.                         *)

RECURSIVE GCD(_, _)
GCD(a, b) == IF b = 0 THEN a ELSE GCD(b, a % b)

TrueDiv(n, d) == <<n \div GCD(n, d), d \div GCD(n, d)>>

FloatOne == <<1, 1>>
FloatZero == <<0, 1>>

\* f >= k/10 for a float literal k/10
GreaterEq(f, tenths) == f[1] * 10 >= tenths * f[2]

---------------------------------------------------------------------------
(* jaccard_similarity *)

\* jaccard_similarity dividing by the first text's word count, not the union's
jaccard_over_first(t1, t2) ==
    LET words1 == ToSet(Split(Lower(t1)))
        words2 == ToSet(Split(Lower(t2)))
        intersection == words1 \cap words2
        union == words1 \cup words2
    IN  IF Cardinality(words1) = 0
        THEN IF Cardinality(words2) = 0 THEN FloatOne ELSE FloatZero
        ELSE TrueDiv(Cardinality(intersection), Cardinality(words1))

jaccard_similarity(t1, t2) ==
    LET words1 == ToSet(Split(Lower(t1)))
        words2 == ToSet(Split(Lower(t2)))
        intersection == words1 \cap words2
        union == words1 \cup words2
    IN  IF Cardinality(union) = 0
        THEN IF Cardinality(words1) = 0 /\ Cardinality(words2) = 0
             THEN FloatOne ELSE FloatZero
        ELSE TrueDiv(Cardinality(intersection), Cardinality(union))

---------------------------------------------------------------------------
(* Inputs from the outside world *)

\* texts the speech engine may give one segment (s.text)
SegTexts == {<<>>, <<"a">>, <<" ", "b">>, <<"A">>}

\* texts the correction service may return as message content
Contents == {<<>>, <<"a">>, <<"A", " ", "c">>}

\* what mic_recorder returns: None, or a recording the engine will cut
\* into segs segments
NoAudio == [present |-> FALSE, segs |-> 0]
Recordings == [present : {TRUE}, segs : 0..MaxSegs]

\* HTTP statuses of the final response
Statuses == {200, 201, 300, 404, 500}

\* shapes of the response body: not JSON at all, JSON without "choices",
\* with an empty "choices" list, without "message", without "content",
\* or carrying choices[0].message.content
Shapes == {"invalid_json", "no_choices", "empty_choices", "no_message",
           "no_content", "ok"}

NoResponse == [kind |-> "none", status |-> 0, shape |-> "none", content |-> <<>>]
NetworkError == [kind |-> "network_error", status |-> 0, shape |-> "none",
                 content |-> <<>>]
Responses ==
    {NetworkError}
    \cup [kind : {"response"}, status : Statuses,
          shape : Shapes \ {"ok"}, content : {<<>>}]
    \cup [kind : {"response"}, status : Statuses, shape : {"ok"},
          content : Contents]

---------------------------------------------------------------------------
(* The correction call, lines 94-102 *)

\* requests.post raises (connection error, timeout, ...)
PostRaises(r) == r.kind = "network_error"

\* RaiseForStatus rejecting everything but 200
RaiseUnless200(r) == r.status # 200

\* Response.raise_for_status(): HTTPError for 4xx and 5xx statuses only
RaiseForStatus(r) == r.status >= 400 /\ r.status < 600

\* res.json() raises on a body that is not JSON; the subscripts
\* ["choices"][0]["message"]["content"] raise KeyError / IndexError
ExtractRaises(r) == r.shape # "ok"

\* res.json()["choices"][0]["message"]["content"]
ExtractContent(r) == r.content

\* an exception is raised inside the inner try block
CorrectionRaises(r) == PostRaises(r) \/ RaiseForStatus(r) \/ ExtractRaises(r)

\* `except Exception as e` of line 99 handles every exception of the block
InnerHandlerCatches(r) == TRUE

\* line 101: the text stored when the call failed
FallbackText(raw) == raw

\* HasSpeech without the strip()
HasSpeechNoStrip(raw) == Truthy(raw)

\* HasSpeech with the test of line 78 left out
HasSpeechAlways(raw) == TRUE

\* line 78: `if st.session_state.raw_transcript.strip():`
HasSpeech(raw) == Truthy(Strip(raw))

---------------------------------------------------------------------------
(* The interpretation of a score, lines 121-129 *)

Interpret(score) ==
    IF GreaterEq(score, 8) THEN "Very High"
    ELSE IF GreaterEq(score, 6) THEN "Moderate"
    ELSE "Low"

---------------------------------------------------------------------------
(* Initial state: session state as lines 37-42 create it *)

Init ==
    /\ raw_transcript = <<>>
    /\ corrected_transcript = <<>>
    /\ show_results = FALSE
    /\ pc = "idle"
    /\ audio = NoAudio
    /\ pending = 0
    /\ fragments = <<>>
    /\ res = NoResponse
    /\ ui = {}
    /\ similarity_score = <<>>
    /\ interpretation = "unset"
    /\ name_error = FALSE
    /\ text1 = <<>>
    /\ text2 = <<>>
    /\ jresult = <<>>

---------------------------------------------------------------------------
(* One script run *)

\* Lines 36-58: the script starts, the recorder returns a, and a new
\* recording resets the results.  Locals of the previous run are gone.
ScriptRun(a) ==
    /\ pc = "idle"
    /\ audio' = a
    /\ fragments' = <<>>
    /\ res' = NoResponse
    /\ similarity_score' = <<>>
    /\ interpretation' = "unset"
    /\ pending' = a.segs
    /\ IF a.present
       THEN /\ ui' = {"info:transcribing"}
            /\ show_results' = FALSE
            /\ corrected_transcript' = <<>>
            /\ pc' = "transcribe"
       ELSE /\ ui' = {}
            /\ UNCHANGED <<show_results, corrected_transcript>>
            /\ pc' = "display"
    /\ UNCHANGED <<raw_transcript, name_error, jaccardVars>>

\* Line 68, one turn of `[s.text for s in segments]`: the engine yields the
\* next segment and its text is appended to the list.
NextSegment(t) ==
    /\ pc = "transcribe"
    /\ pending > 0
    /\ fragments' = Append(fragments, t)
    /\ pending' = pending - 1
    /\ UNCHANGED <<sessionVars, pc, audio, res, ui, similarity_score,
                   interpretation, name_error, jaccardVars>>

\* Lines 67-68 raise (model.transcribe, or the engine while it is iterated):
\* control passes to the handler of lines 106-109.
TranscriptionFails ==
    /\ pc = "transcribe"
    /\ ui' = ui \cup {"error:transcription_failed"}
    /\ pc' = "display"
    /\ UNCHANGED <<sessionVars, audio, pending, fragments, res,
                   similarity_score, interpretation, name_error, jaccardVars>>

\* Lines 68-78 and 103-104: the segment texts are joined and stored, the raw
\* transcript is shown, and the run goes on to correction if there is text.
StoreTranscript ==
    /\ pc = "transcribe"
    /\ pending = 0
    /\ raw_transcript' = JoinTexts(<<" ">>, fragments)
    /\ IF HasSpeech(raw_transcript')
       THEN /\ ui' = ui \cup {"raw_display"}
            /\ pc' = "correct"
       ELSE /\ ui' = ui \cup {"raw_display", "warning:no_speech"}
            /\ pc' = "display"
    /\ UNCHANGED <<corrected_transcript, show_results, audio, pending,
                   fragments, res, similarity_score, interpretation,
                   name_error, jaccardVars>>

\* Correct with the failure handler writing the result over the raw text too
CorrectClobbersRaw(r) ==
    /\ pc = "correct"
    /\ res' = r
    /\ IF ~CorrectionRaises(r)
       THEN /\ corrected_transcript' = ExtractContent(r)
            /\ raw_transcript' = corrected_transcript'
            /\ show_results' = TRUE
            /\ ui' = ui
       ELSE /\ corrected_transcript' = FallbackText(raw_transcript)
            /\ raw_transcript' = raw_transcript
            /\ show_results' = TRUE
            /\ ui' = ui \cup {"error:correction_failed"}
    /\ pc' = "display"
    /\ UNCHANGED <<audio, pending, fragments, similarity_score,
                   interpretation, name_error, jaccardVars>>

\* Lines 79-102: the request is sent and answered by r.
Correct(r) ==
    /\ pc = "correct"
    /\ res' = r
    /\ IF ~CorrectionRaises(r)
       THEN /\ corrected_transcript' = ExtractContent(r)
            /\ show_results' = TRUE
            /\ ui' = ui
       ELSE IF InnerHandlerCatches(r)
       THEN /\ corrected_transcript' = FallbackText(raw_transcript)
            /\ show_results' = TRUE
            /\ ui' = ui \cup {"error:correction_failed"}
       ELSE /\ ui' = ui \cup {"error:transcription_failed"}
            /\ UNCHANGED <<corrected_transcript, show_results>>
    /\ pc' = "display"
    /\ UNCHANGED <<raw_transcript, audio, pending, fragments,
                   similarity_score, interpretation, name_error, jaccardVars>>

\* Lines 112-231: the results section; click is the value of
\* st.button("Generate PDF Report").  The run ends here.
Display(click) ==
    /\ pc = "display"
    /\ LET entered == show_results /\ Truthy(corrected_transcript)
           scored == entered /\ Truthy(raw_transcript) /\ Truthy(corrected_transcript)
           pdf == entered /\ click
       IN  /\ similarity_score' =
                IF scored
                THEN jaccard_similarity(raw_transcript, corrected_transcript)
                ELSE similarity_score
           /\ interpretation' =
                IF scored THEN Interpret(similarity_score') ELSE interpretation
           /\ name_error' = (name_error \/ (pdf /\ similarity_score' = <<>>))
           /\ ui' = ui
                \cup (IF entered THEN {"corrected_display"} ELSE {})
                \cup (IF scored THEN {"analysis"} ELSE {})
                \cup (IF pdf /\ similarity_score' # <<>> THEN {"pdf_download"} ELSE {})
    /\ pc' = "idle"
    /\ UNCHANGED <<sessionVars, audio, pending, fragments, res, jaccardVars>>

Next ==
    \/ \E a \in {NoAudio} \cup Recordings : ScriptRun(a)
    \/ \E t \in SegTexts : NextSegment(t)
    \/ TranscriptionFails
    \/ StoreTranscript
    \/ \E r \in Responses : Correct(r)
    \/ \E click \in BOOLEAN : Display(click)

Spec == Init /\ [][Next]_vars

---------------------------------------------------------------------------
(* jaccard_similarity called directly on bounded inputs *)

JChars == {"a", "A", "b", " "}

RECURSIVE TextsUpTo(_)
TextsUpTo(n) ==
    IF n = 0 THEN {<<>>}
    ELSE LET shorter == TextsUpTo(n - 1)
         IN  shorter \cup {Append(t, c) : t \in shorter, c \in JChars}

ExampleABC == <<"a", " ", "b", " ", "c">>
ExampleABD == <<"a", " ", "b", " ", "d">>
ExampleMixed == <<"\t", "B", "\n", "b", " ", " ", "A", "\n">>

JTexts == TextsUpTo(MaxLen) \cup {ExampleABC, ExampleABD, ExampleMixed}

InitJ ==
    /\ raw_transcript = <<>>
    /\ corrected_transcript = <<>>
    /\ show_results = FALSE
    /\ pc = "call"
    /\ audio = NoAudio
    /\ pending = 0
    /\ fragments = <<>>
    /\ res = NoResponse
    /\ ui = {}
    /\ similarity_score = <<>>
    /\ interpretation = "unset"
    /\ name_error = FALSE
    /\ text1 \in JTexts
    /\ text2 \in JTexts
    /\ jresult = <<>>

JaccardCall ==
    /\ pc = "call"
    /\ jresult' = jaccard_similarity(text1, text2)
    /\ pc' = "returned"
    /\ UNCHANGED <<sessionVars, runVars, text1, text2>>

NextJ == JaccardCall

SpecJ == InitJ /\ [][NextJ]_vars

---------------------------------------------------------------------------
(* Vocabulary of the properties *)

\* the text consists of whitespace only (the empty text included)
IsBlank(t) == \A i \in DOMAIN t : t[i] \in Whitespace

\* the set of lowercased whitespace-separated words of t: every maximal
\* stretch of non-whitespace characters
WordsOf(t) ==
    LET low == [i \in DOMAIN t |-> LowerChar(t[i])]
        n == Len(t)
    IN  {SubSeq(low, i, j) : <<i, j>> \in
            {p \in (1..n) \X (1..n) :
                /\ p[1] <= p[2]
                /\ \A k \in p[1]..p[2] : t[k] \notin Whitespace
                /\ (p[1] = 1 \/ t[p[1] - 1] \in Whitespace)
                /\ (p[2] = n \/ t[p[2] + 1] \in Whitespace)}}

\* where fragment i starts in the joined text (0-based): after the i-1
\* fragments before it and their separators
RECURSIVE Offset(_, _)
Offset(list, i) ==
    IF i = 1 THEN 0 ELSE Offset(list, i - 1) + Len(list[i - 1]) + 1

\* the correction call of this run has been made and answered
CorrectionCalled == res.kind # "none"

\* the call failed in the sense of the specification: network error,
\* non-2xx status, or a body without choices[0].message.content
CallFailed(r) ==
    \/ r.kind = "network_error"
    \/ r.kind = "response" /\ (r.status \notin 200..299 \/ r.shape # "ok")

\* this run transcribed its recording and stored the raw transcript
Transcribed == "raw_display" \in ui

---------------------------------------------------------------------------
(* Properties *)

\* C1: whenever the correction call fails (network error, non-2xx status,
\* body without choices[0].message.content) the corrected transcript equals
\* the raw transcript, the failure is marked, and no exception reaches the
\* outer handler.
C1_FailureFallsBackToRaw ==
    (CorrectionCalled /\ CallFailed(res)) =>
        /\ corrected_transcript = raw_transcript
        /\ "error:correction_failed" \in ui
        /\ "error:transcription_failed" \notin ui

\* C1, the part the code does deliver: whenever the inner try block raises
\* (network error, 4xx or 5xx status, body without the content) the
\* corrected transcript equals the raw transcript, the failure is marked,
\* and the outer handler is not reached.
C1_RaisedFallsBackToRaw ==
    (CorrectionCalled /\ CorrectionRaises(res)) =>
        /\ corrected_transcript = raw_transcript
        /\ show_results
        /\ "error:correction_failed" \in ui
        /\ "error:transcription_failed" \notin ui

C3_BlankMirrorsRaw ==
    (Transcribed /\ IsBlank(raw_transcript)) =>
        /\ ~CorrectionCalled /\ pc # "correct"
        /\ corrected_transcript = raw_transcript

\* C3 as amended: when the raw transcript of a recording is blank the
\* correction API is not called and the corrected transcript is the empty
\* text, which is the raw transcript with its whitespace stripped.
C3_BlankSkipsCorrection ==
    (Transcribed /\ IsBlank(raw_transcript)) =>
        /\ ~CorrectionCalled /\ pc # "correct"
        /\ corrected_transcript = <<>>
        /\ ~show_results

C3_Witness ==
    /\ pc = "idle"
    /\ Transcribed
    /\ raw_transcript = <<" ">>
    /\ corrected_transcript = <<>>
    /\ "warning:no_speech" \in ui

\* C4: the correction step never modifies the raw transcript, whether the
\* call succeeds or fails.
C4_CorrectionKeepsRaw ==
    [][pc = "correct" => raw_transcript' = raw_transcript]_vars

C4_Witness ==
    /\ pc = "display"
    /\ CorrectionCalled /\ CorrectionRaises(res)
    /\ Transcribed
    /\ raw_transcript = JoinTexts(<<" ">>, fragments)
    /\ Len(fragments) = 2

\* C5: jaccard_similarity returns |intersection| / |union| of the two sets
\* of lowercased whitespace-separated words; 1.0 when both sets are empty,
\* 0.0 when exactly one is; always within [0.0, 1.0]; "a b c" against
\* "a b d" gives 0.5.
C5_JaccardIsSetRatio ==
    pc = "returned" =>
        LET W1 == WordsOf(text1)
            W2 == WordsOf(text2)
        IN  /\ Len(jresult) = 2
            /\ jresult[2] > 0 /\ 0 <= jresult[1] /\ jresult[1] <= jresult[2]
            /\ (W1 = {} /\ W2 = {}) => jresult = <<1, 1>>
            /\ ((W1 = {}) # (W2 = {})) => jresult = <<0, 1>>
            /\ (W1 \cup W2 # {}) =>
                  jresult[1] * Cardinality(W1 \cup W2)
                      = jresult[2] * Cardinality(W1 \cap W2)
            /\ (text1 = ExampleABC /\ text2 = ExampleABD) => jresult = <<1, 2>>

C5_Witness ==
    /\ pc = "returned"
    /\ text1 = ExampleMixed
    /\ text2 = <<"a", " ", "a">>
    /\ jresult = <<1, 2>>

\* C6: jaccard_similarity(A, B) equals jaccard_similarity(B, A).
C6_JaccardSymmetric ==
    pc = "returned" => jresult = jaccard_similarity(text2, text1)

C6_Witness ==
    /\ pc = "returned"
    /\ text1 = ExampleABC
    /\ text2 = <<"A">>
    /\ jresult = <<1, 3>>

\* C7: the raw transcript stored for a recording is the fragments c1..cN in
\* the order the engine produced them, each whole, none missing or repeated,
\* with one space between neighbours.
C7_JoinInOrder ==
    Transcribed =>
        LET n == Len(fragments)
        IN  /\ n = audio.segs
            /\ Len(raw_transcript) =
                  IF n = 0 THEN 0 ELSE Offset(fragments, n) + Len(fragments[n])
            /\ \A i \in 1..n :
                  SubSeq(raw_transcript, Offset(fragments, i) + 1,
                         Offset(fragments, i) + Len(fragments[i])) = fragments[i]
            /\ \A i \in 2..n : raw_transcript[Offset(fragments, i)] = " "

C7_Witness ==
    /\ Transcribed
    /\ fragments = << <<"a">>, <<" ", "b">> >>
    /\ raw_transcript = <<"a", " ", " ", "b">>

\* C8: when transcription of a recording fails, the transcript for that
\* recording is empty, not text left over from an earlier recording.
C8_FailedAudioIsEmpty ==
    "error:transcription_failed" \in ui => raw_transcript = <<>>

\* C9: once the run is past transcription of a recording of M segments, all
\* M have been transcribed and are in the raw transcript.
C9_AllChunksAppended ==
    (audio.present /\ pc # "transcribe") =>
        /\ Len(fragments) = audio.segs
        /\ raw_transcript = JoinTexts(<<" ">>, fragments)

\* C10: show_results implies the raw transcript has a non-whitespace
\* character; whenever the results section is rendered the score and its
\* interpretation were assigned in that run, and no run reads them
\* unassigned.
C10_ResultsImplySpeech ==
    /\ show_results => ~IsBlank(raw_transcript)
    /\ "corrected_display" \in ui =>
          (similarity_score # <<>> /\ interpretation # "unset")
    /\ ~name_error

C10_Witness ==
    /\ pc = "idle"
    /\ ~audio.present
    /\ "pdf_download" \in ui
    /\ similarity_score = <<1, 2>>
    /\ interpretation = "Low"

====
